---- MODULE Spec2Model ----
(***************************************************************************)
(* Model of main.py: the null-safe division safe_div, the ratio engine     *)
(* compute_ratios, and the top-to-bottom script that selects the 32        *)
(* features, drops rows with nulls, loads the model, predicts and builds   *)
(* the output table.                                                       *)
(*                                                                         *)
(* Numbers.  A pandas float cell is modelled as an exact rational <<n, d>> *)
(* in lowest terms with d > 0; <<0, 0>> is NaN (null), <<1, 0>> is +inf    *)
(* and <<-1, 0>> is -inf.  Rounding and overflow of IEEE doubles are not   *)
(* modelled.                                                               *)
(*                                                                         *)
(* Names.  Column names are the source's, transliterated to ASCII          *)
(* (o for the o-umlaut, i for the dotless i, and so on), because strings   *)
(* of the module are ASCII.                                                *)
(***************************************************************************)
EXTENDS Integers, Sequences, FiniteSets, TLC

VARIABLES
    pc,           \* position of the script
    model_file,   \* the file MODEL_PATH on disk: "ok", "missing" or "corrupt"
    uploaded,     \* the table as transposed from the upload (never changed)
    raw_df,       \* the DataFrame raw_df; `enriched` is the same object
    model_input,  \* the DataFrame model_input
    out_df,       \* the DataFrame out_df
    pred_label,   \* labels returned by enc.inverse_transform
    msg,          \* what st.error / st.success / the traceback shows
    warned,       \* st.warning was shown
    load_called,  \* joblib.load was called
    predicted,    \* pipe.predict was called
    num, denom, result,   \* arguments and value of a call of safe_div
    calls, first          \* number of calls of compute_ratios, value of the first

vars == <<pc, model_file, uploaded, raw_df, model_input, out_df, pred_label,
          msg, warned, load_called, predicted, num, denom, result, calls, first>>

(***************************************************************************)
(* Bounds of the model.                                                    *)
(***************************************************************************)
MaxVal == 1     \* perturbed cells range over NaN and -MaxVal..MaxVal
MaxLen == 2     \* longest series given to safe_div on its own
MaxRows == 2    \* most rows of an uploaded table
MaxCalls == 2   \* most calls of compute_ratios on one table

(***************************************************************************)
(* Float arithmetic of pandas/numpy on exact rationals.                    *)
(***************************************************************************)
NaN == <<0, 0>>

Abs(x) == IF x < 0 THEN -x ELSE x

Sgn(x) == IF x < 0 THEN -1 ELSE IF x = 0 THEN 0 ELSE 1

RECURSIVE GCD(_, _)
GCD(a, b) == IF b = 0 THEN a ELSE GCD(b, a % b)

Norm(n, d) ==
    IF d = 0 THEN <<Sgn(n), 0>>
    ELSE LET g == GCD(Abs(n), Abs(d))
             s == Sgn(d)
         IN  <<(s * n) \div g, (s * d) \div g>>

Num(k) == <<k, 1>>

Zero == Num(0)

IsNaN(a) == a = NaN

Add(a, b) ==
    IF a[2] = 0 /\ b[2] = 0
    THEN (IF a = b THEN a ELSE NaN)
    ELSE Norm(a[1] * b[2] + b[1] * a[2], a[2] * b[2])

Neg(a) == <<-a[1], a[2]>>

Sub(a, b) == Add(a, Neg(b))

Mul(a, b) == Norm(a[1] * b[1], a[2] * b[2])

Div(a, b) ==
    IF IsNaN(a) \/ IsNaN(b) THEN NaN
    ELSE IF b[2] = 0 THEN (IF a[2] = 0 THEN NaN ELSE Zero)
    ELSE IF b[1] = 0 THEN <<Sgn(a[1]), 0>>
    ELSE Norm(a[1] * b[2] * Sgn(b[1]), a[2] * Abs(b[1]))

(***************************************************************************)
(* Series: element-wise operations.                                        *)
(***************************************************************************)
SAdd(s, t) == [i \in DOMAIN s |-> Add(s[i], t[i])]

SSub(s, t) == [i \in DOMAIN s |-> Sub(s[i], t[i])]

SDiv(s, t) == [i \in DOMAIN s |-> Div(s[i], t[i])]

SScale(k, s) == [i \in DOMAIN s |-> Mul(k, s[i])]

SNeg(s) == [i \in DOMAIN s |-> Neg(s[i])]

replace(s, old, new) == [i \in DOMAIN s |-> IF s[i] = old THEN new ELSE s[i]]

fillna(s, v) == [i \in DOMAIN s |-> IF IsNaN(s[i]) THEN v ELSE s[i]]

\* safe_div without the replacement of zero denominators.
safe_div_noreplace(n, d) == fillna(SDiv(n, d), Zero)

\* safe_div that zeroes only the positions whose denominator is 0 or NaN.
safe_div_denomonly(n, d) ==
    [i \in DOMAIN n |-> IF d[i] = Zero \/ IsNaN(d[i]) THEN Zero ELSE Div(n[i], d[i])]

safe_div(n, d) ==
    LET denom_replaced == replace(d, Zero, NaN)
        res == SDiv(n, denom_replaced)
    IN  fillna(res, Zero)

(***************************************************************************)
(* DataFrames: [index |-> sequence of row labels,                          *)
(*              data  |-> function from column names to series].           *)
(***************************************************************************)
col(df, c) == df.data[c]

columns(df) == DOMAIN df.data

nrows(df) == Len(df.index)

\* The raw columns compute_ratios reads.
Fields == {
    "Donen Varliklar", "Duran Varliklar",
    "Kisa Vadeli Yukumlulukler", "Uzun Vadeli Yukumlulukler",
    "Stoklar", "Diger Donen Varliklar", "Nakit ve Nakit Benzerleri",
    "FAALIYET KARI (ZARARI)", "Satis Gelirleri", "Net Faaliyet Kar/Zarari",
    "Ticari Faaliyetlerden Brut Kar (Zarar)", "Donem Net Kar/Zarari",
    "Ticari Alacaklar", "Satislarin Maliyeti (-)", "Ticari Borclar",
    "Toplam Ozkaynaklar", "Maddi Duran Varliklar",
    "Maddi Olmayan Duran Varliklar", "Finansman Giderleri",
    "Gecmis Yillar Kar/Zararlari",
    "SURDURULEN FAALIYETLER VERGI ONCESI KARI (ZARARI)" }

SELECTED_FEATS == {
    "Altman Z-Skoru", "Finansal Kaldirac", "Nakit Orani", "Aktif Devir Hizi",
    "L Model Skoru", "Zmijewski Skoru", "Asit Test Orani",
    "Ozsermaye / Maddi Duran Varliklar", "Faaliyet Kar Marji",
    "Duran Varliklar / Maddi Ozkaynak", "Ticari Borclar Devir Hizi",
    "Stok Devir Hizi", "Brut Kar Marji (%)", "Cari Oran",
    "Esas Faaliyet Kari / Kisa Vadeli Borc", "Esas Faaliyet Kar Marji",
    "Ozsermaye / Aktif", "Alacak Devir Hizi", "Borc Kaynak Orani",
    "Net Kar Marji", "Net Satislar / Kisa Vade Borc",
    "Kisa Vade Borc / Ozsermaye", "Kisa Vade Borc / Toplam Borc",
    "Kisa Vade Borc / Aktif", "Kisa Vade Borc / Donen Varlik",
    "FAVOK / Kisa Vade Borc", "Duran Varliklar / Aktif ",
    "Donen Varliklar / Aktif (%)", "Donen Varliklar Devir Hizi",
    "Aktif Karlilik (%)", "ROCE Orani", "Finansman Gider / Net Satis" }

\* The three scoring models; every other feature is one safe_div.
ScoreCols == {"Altman Z-Skoru", "Zmijewski Skoru", "L Model Skoru"}

RatioCols == SELECTED_FEATS \ ScoreCols

total_assets(df) == SAdd(col(df, "Donen Varliklar"), col(df, "Duran Varliklar"))

total_liab(df) ==
    SAdd(col(df, "Kisa Vadeli Yukumlulukler"), col(df, "Uzun Vadeli Yukumlulukler"))

\* First argument of the safe_div of a ratio column.
Numer(df, c) ==
    CASE c = "Cari Oran" -> col(df, "Donen Varliklar")
      [] c = "Asit Test Orani" ->
            SSub(SSub(col(df, "Donen Varliklar"), col(df, "Stoklar")),
                 col(df, "Diger Donen Varliklar"))
      [] c = "Nakit Orani" -> col(df, "Nakit ve Nakit Benzerleri")
      [] c = "Faaliyet Kar Marji" -> SScale(Num(100), col(df, "FAALIYET KARI (ZARARI)"))
      [] c = "Esas Faaliyet Kar Marji" -> SScale(Num(100), col(df, "Net Faaliyet Kar/Zarari"))
      [] c = "Brut Kar Marji (%)" ->
            SScale(Num(100), col(df, "Ticari Faaliyetlerden Brut Kar (Zarar)"))
      [] c = "Net Kar Marji" -> SScale(Num(100), col(df, "Donem Net Kar/Zarari"))
      [] c = "FAVOK / Kisa Vade Borc" -> col(df, "FAALIYET KARI (ZARARI)")
      [] c = "Aktif Devir Hizi" -> col(df, "Satis Gelirleri")
      [] c = "Alacak Devir Hizi" -> col(df, "Satis Gelirleri")
      [] c = "Donen Varliklar Devir Hizi" -> col(df, "Donen Varliklar")
      [] c = "Ticari Borclar Devir Hizi" -> col(df, "Satislarin Maliyeti (-)")
      [] c = "Stok Devir Hizi" -> col(df, "Satislarin Maliyeti (-)")
      [] c = "Borc Kaynak Orani" -> total_liab(df)
      [] c = "Finansal Kaldirac" -> total_liab(df)
      [] c = "Ozsermaye / Aktif" -> col(df, "Toplam Ozkaynaklar")
      [] c = "Ozsermaye / Maddi Duran Varliklar" -> col(df, "Toplam Ozkaynaklar")
      [] c = "Duran Varliklar / Maddi Ozkaynak" -> col(df, "Duran Varliklar")
      [] c = "Duran Varliklar / Aktif " -> SScale(Num(100), col(df, "Duran Varliklar"))
      [] c = "Donen Varliklar / Aktif (%)" -> SScale(Num(100), col(df, "Donen Varliklar"))
      [] c = "Kisa Vade Borc / Aktif" -> col(df, "Kisa Vadeli Yukumlulukler")
      [] c = "Kisa Vade Borc / Donen Varlik" -> col(df, "Kisa Vadeli Yukumlulukler")
      [] c = "Kisa Vade Borc / Ozsermaye" -> col(df, "Kisa Vadeli Yukumlulukler")
      [] c = "Kisa Vade Borc / Toplam Borc" -> col(df, "Kisa Vadeli Yukumlulukler")
      [] c = "Net Satislar / Kisa Vade Borc" -> col(df, "Satis Gelirleri")
      [] c = "Esas Faaliyet Kari / Kisa Vadeli Borc" -> col(df, "Net Faaliyet Kar/Zarari")
      [] c = "Aktif Karlilik (%)" -> SScale(Num(100), col(df, "Donem Net Kar/Zarari"))
      [] c = "ROCE Orani" -> SScale(Num(100), col(df, "FAALIYET KARI (ZARARI)"))
      [] c = "Finansman Gider / Net Satis" -> col(df, "Finansman Giderleri")

\* Second argument of the safe_div of a ratio column.
Denom(df, c) ==
    CASE c \in {"Cari Oran", "Asit Test Orani", "Nakit Orani", "FAVOK / Kisa Vade Borc",
                "Net Satislar / Kisa Vade Borc", "Esas Faaliyet Kari / Kisa Vadeli Borc"} ->
            col(df, "Kisa Vadeli Yukumlulukler")
      [] c \in {"Faaliyet Kar Marji", "Esas Faaliyet Kar Marji", "Brut Kar Marji (%)",
                "Net Kar Marji", "Donen Varliklar Devir Hizi",
                "Finansman Gider / Net Satis"} ->
            col(df, "Satis Gelirleri")
      [] c \in {"Aktif Devir Hizi", "Finansal Kaldirac", "Ozsermaye / Aktif",
                "Duran Varliklar / Aktif ", "Donen Varliklar / Aktif (%)",
                "Kisa Vade Borc / Aktif", "Aktif Karlilik (%)", "ROCE Orani"} ->
            total_assets(df)
      [] c = "Alacak Devir Hizi" -> col(df, "Ticari Alacaklar")
      [] c = "Ticari Borclar Devir Hizi" -> col(df, "Ticari Borclar")
      [] c = "Stok Devir Hizi" -> col(df, "Stoklar")
      [] c \in {"Borc Kaynak Orani", "Kisa Vade Borc / Ozsermaye"} ->
            col(df, "Toplam Ozkaynaklar")
      [] c = "Ozsermaye / Maddi Duran Varliklar" -> col(df, "Maddi Duran Varliklar")
      [] c = "Duran Varliklar / Maddi Ozkaynak" ->
            SSub(col(df, "Toplam Ozkaynaklar"), col(df, "Maddi Olmayan Duran Varliklar"))
      [] c = "Kisa Vade Borc / Donen Varlik" -> col(df, "Donen Varliklar")
      [] c = "Kisa Vade Borc / Toplam Borc" -> total_liab(df)

\* What is done to the value of safe_div before it is stored.
Post(c, s) ==
    CASE c \in {"Ticari Borclar Devir Hizi", "Stok Devir Hizi"} -> SNeg(s)
      [] c \in {"Borc Kaynak Orani", "Finansal Kaldirac"} -> SScale(Num(100), s)
      [] OTHER -> s

X1(df) ==
    safe_div(SSub(col(df, "Donen Varliklar"), col(df, "Kisa Vadeli Yukumlulukler")),
             total_assets(df))

X2(df) ==
    safe_div(SAdd(col(df, "Gecmis Yillar Kar/Zararlari"), col(df, "Donem Net Kar/Zarari")),
             total_assets(df))

X3(df) ==
    safe_div(col(df, "SURDURULEN FAALIYETLER VERGI ONCESI KARI (ZARARI)"), total_assets(df))

X4(df) == safe_div(col(df, "Toplam Ozkaynaklar"), total_liab(df))

X5(df) == safe_div(col(df, "Satis Gelirleri"), total_assets(df))

Z1(df) == safe_div(col(df, "Donem Net Kar/Zarari"), total_assets(df))

Z2(df) == safe_div(total_liab(df), total_assets(df))

Z3(df) == safe_div(col(df, "Donen Varliklar"), col(df, "Kisa Vadeli Yukumlulukler"))

L6(df) ==
    safe_div(safe_div(col(df, "Nakit ve Nakit Benzerleri"),
                      col(df, "Kisa Vadeli Yukumlulukler")),
             total_liab(df))

L7(df) == safe_div(total_liab(df), total_assets(df))

\* A decimal literal of the source, n / d.
Dec(n, d) == Norm(n, d)

SShift(k, s) == [i \in DOMAIN s |-> Add(k, s[i])]

AltmanZ(df) ==
    SAdd(SAdd(SAdd(SAdd(SScale(Dec(12, 10), X1(df)), SScale(Dec(14, 10), X2(df))),
                   SScale(Dec(33, 10), X3(df))),
              SScale(Dec(6, 10), X4(df))),
         X5(df))

Zmijewski(df) ==
    SSub(SAdd(SShift(Dec(-43, 10), SNeg(SScale(Dec(45, 10), Z1(df)))),
              SScale(Dec(57, 10), Z2(df))),
         SScale(Dec(4, 1000), Z3(df)))

LModel(df) ==
    SSub(SAdd(SAdd(SSub(SSub(SAdd(SNeg(SScale(Dec(113, 1000), X1(df))),
                                  SScale(Dec(238, 1000), X2(df))),
                             SScale(Dec(52, 1000), X3(df))),
                        SScale(Dec(51, 1000), X4(df))),
                   SScale(Dec(11, 1000), X5(df))),
              SScale(Dec(729, 1000), L6(df))),
         SScale(Dec(639, 1000), L7(df)))

\* The series assigned to derived column c.
Column(df, c) ==
    CASE c = "Altman Z-Skoru" -> AltmanZ(df)
      [] c = "Zmijewski Skoru" -> Zmijewski(df)
      [] c = "L Model Skoru" -> LModel(df)
      [] OTHER -> Post(c, safe_div(Numer(df, c), Denom(df, c)))

(***************************************************************************)
(* compute_ratios: the assignments in source order, each with the raw      *)
(* columns it reads.  Reading an absent column raises KeyError; the        *)
(* columns assigned by the statements before it stay on df, which is       *)
(* changed in place.                                                       *)
(***************************************************************************)
Stmt(t, r) == [target |-> t, reads |-> r]

Statements == <<
    Stmt("total_assets", {"Donen Varliklar", "Duran Varliklar"}),
    Stmt("total_liab", {"Kisa Vadeli Yukumlulukler", "Uzun Vadeli Yukumlulukler"}),
    Stmt("Cari Oran", {"Donen Varliklar", "Kisa Vadeli Yukumlulukler"}),
    Stmt("Asit Test Orani", {"Donen Varliklar", "Stoklar", "Diger Donen Varliklar",
                             "Kisa Vadeli Yukumlulukler"}),
    Stmt("Nakit Orani", {"Nakit ve Nakit Benzerleri", "Kisa Vadeli Yukumlulukler"}),
    Stmt("Faaliyet Kar Marji", {"FAALIYET KARI (ZARARI)", "Satis Gelirleri"}),
    Stmt("Esas Faaliyet Kar Marji", {"Net Faaliyet Kar/Zarari", "Satis Gelirleri"}),
    Stmt("Brut Kar Marji (%)", {"Ticari Faaliyetlerden Brut Kar (Zarar)", "Satis Gelirleri"}),
    Stmt("Net Kar Marji", {"Donem Net Kar/Zarari", "Satis Gelirleri"}),
    Stmt("FAVOK / Kisa Vade Borc", {"FAALIYET KARI (ZARARI)", "Kisa Vadeli Yukumlulukler"}),
    Stmt("Aktif Devir Hizi", {"Satis Gelirleri"}),
    Stmt("Alacak Devir Hizi", {"Satis Gelirleri", "Ticari Alacaklar"}),
    Stmt("Donen Varliklar Devir Hizi", {"Donen Varliklar", "Satis Gelirleri"}),
    Stmt("Ticari Borclar Devir Hizi", {"Satislarin Maliyeti (-)", "Ticari Borclar"}),
    Stmt("Stok Devir Hizi", {"Satislarin Maliyeti (-)", "Stoklar"}),
    Stmt("Borc Kaynak Orani", {"Toplam Ozkaynaklar"}),
    Stmt("Finansal Kaldirac", {}),
    Stmt("Ozsermaye / Aktif", {"Toplam Ozkaynaklar"}),
    Stmt("Ozsermaye / Maddi Duran Varliklar", {"Toplam Ozkaynaklar", "Maddi Duran Varliklar"}),
    Stmt("Duran Varliklar / Maddi Ozkaynak",
         {"Duran Varliklar", "Toplam Ozkaynaklar", "Maddi Olmayan Duran Varliklar"}),
    Stmt("Duran Varliklar / Aktif ", {"Duran Varliklar"}),
    Stmt("Donen Varliklar / Aktif (%)", {"Donen Varliklar"}),
    Stmt("Kisa Vade Borc / Aktif", {"Kisa Vadeli Yukumlulukler"}),
    Stmt("Kisa Vade Borc / Donen Varlik", {"Kisa Vadeli Yukumlulukler", "Donen Varliklar"}),
    Stmt("Kisa Vade Borc / Ozsermaye", {"Kisa Vadeli Yukumlulukler", "Toplam Ozkaynaklar"}),
    Stmt("Kisa Vade Borc / Toplam Borc", {"Kisa Vadeli Yukumlulukler"}),
    Stmt("Net Satislar / Kisa Vade Borc", {"Satis Gelirleri", "Kisa Vadeli Yukumlulukler"}),
    Stmt("Esas Faaliyet Kari / Kisa Vadeli Borc",
         {"Net Faaliyet Kar/Zarari", "Kisa Vadeli Yukumlulukler"}),
    Stmt("Aktif Karlilik (%)", {"Donem Net Kar/Zarari"}),
    Stmt("ROCE Orani", {"FAALIYET KARI (ZARARI)"}),
    Stmt("Finansman Gider / Net Satis", {"Finansman Giderleri", "Satis Gelirleri"}),
    Stmt("X1", {"Donen Varliklar", "Kisa Vadeli Yukumlulukler"}),
    Stmt("X2", {"Gecmis Yillar Kar/Zararlari", "Donem Net Kar/Zarari"}),
    Stmt("X3", {"SURDURULEN FAALIYETLER VERGI ONCESI KARI (ZARARI)"}),
    Stmt("X4", {"Toplam Ozkaynaklar"}),
    Stmt("X5", {"Satis Gelirleri"}),
    Stmt("Altman Z-Skoru", {}),
    Stmt("Z1", {"Donem Net Kar/Zarari"}),
    Stmt("Z2", {}),
    Stmt("Z3", {"Donen Varliklar", "Kisa Vadeli Yukumlulukler"}),
    Stmt("Zmijewski Skoru", {}),
    Stmt("L6", {"Nakit ve Nakit Benzerleri", "Kisa Vadeli Yukumlulukler"}),
    Stmt("L7", {}),
    Stmt("L Model Skoru", {}) >>

\* Index of the first statement that reads a column df lacks, or 0.
FirstKeyError(df) ==
    LET bad == {k \in DOMAIN Statements : ~(Statements[k].reads \subseteq columns(df))}
    IN  IF bad = {} THEN 0 ELSE CHOOSE k \in bad : \A j \in bad : k <= j

\* df with the derived columns in `written` assigned.
Assign(df, written) ==
    [df EXCEPT !.data = [c \in columns(df) \cup written |->
                            IF c \in written THEN Column(df, c) ELSE df.data[c]]]

\* compute_ratios that scales the operating profit column in place to get the margins.
compute_ratios_inplace(df) ==
    LET k == FirstKeyError(df)
        scaled == IF k = 0
                  THEN [df EXCEPT !.data["FAALIYET KARI (ZARARI)"] =
                                       SScale(Num(100), df.data["FAALIYET KARI (ZARARI)"])]
                  ELSE df
        last == IF k = 0 THEN Len(Statements) ELSE k - 1
        written == {Statements[j].target : j \in 1..last} \cap SELECTED_FEATS
    IN  [raised |-> k # 0, df |-> Assign(scaled, written)]

\* [raised |-> KeyError was raised, df |-> the table df after the call].
compute_ratios(df) ==
    LET k == FirstKeyError(df)
        last == IF k = 0 THEN Len(Statements) ELSE k - 1
        written == {Statements[j].target : j \in 1..last} \cap SELECTED_FEATS
    IN  [raised |-> k # 0, df |-> Assign(df, written)]

(***************************************************************************)
(* DataFrame operations of the script.                                     *)
(***************************************************************************)
EmptyDF == [index |-> <<>>, data |-> <<>>]

\* df[cols].copy()
select(df, cols) == [index |-> df.index, data |-> [c \in cols |-> df.data[c]]]

\* The rows of df at the positions pos, in that order.
take(df, pos) ==
    [index |-> [k \in 1..Len(pos) |-> df.index[pos[k]]],
     data  |-> [c \in columns(df) |-> [k \in 1..Len(pos) |-> df.data[c][pos[k]]]]]

\* df.isna().any().any()
anyna(df) == \E c \in columns(df) : \E i \in 1..nrows(df) : IsNaN(df.data[c][i])

\* dropna(how="all"): only the rows that are NaN in every column go.
dropna_all(df) ==
    LET ok(i) == \E c \in columns(df) : ~IsNaN(df.data[c][i])
    IN  take(df, SelectSeq([i \in 1..nrows(df) |-> i], ok))

\* df.dropna(): the rows without a NaN, labels and order kept.
dropna(df) ==
    LET ok(i) == \A c \in columns(df) : ~IsNaN(df.data[c][i])
    IN  take(df, SelectSeq([i \in 1..nrows(df) |-> i], ok))

\* df.loc[labels]
loc(df, labels) ==
    take(df, [k \in 1..Len(labels) |->
                 CHOOSE i \in 1..nrows(df) : df.index[i] = labels[k]])

\* df with column c set to the series s
setcol(df, c, s) ==
    [df EXCEPT !.data = [x \in columns(df) \cup {c} |-> IF x = c THEN s ELSE df.data[x]]]

(***************************************************************************)
(* Inputs: the uploaded tables the model is run on.                        *)
(***************************************************************************)
Cells == {NaN} \cup {Num(k) : k \in -MaxVal..MaxVal}

\* A firm with total assets 20, total liabilities 12, net income 1.
SampleFirm ==
    [f \in Fields |->
        Num(CASE f = "Donen Varliklar" -> 10
              [] f = "Duran Varliklar" -> 10
              [] f = "Kisa Vadeli Yukumlulukler" -> 5
              [] f = "Uzun Vadeli Yukumlulukler" -> 7
              [] f = "Stoklar" -> 2
              [] f = "Diger Donen Varliklar" -> 1
              [] f = "Nakit ve Nakit Benzerleri" -> 3
              [] f = "FAALIYET KARI (ZARARI)" -> 2
              [] f = "Satis Gelirleri" -> 20
              [] f = "Net Faaliyet Kar/Zarari" -> 2
              [] f = "Ticari Faaliyetlerden Brut Kar (Zarar)" -> 5
              [] f = "Donem Net Kar/Zarari" -> 1
              [] f = "Ticari Alacaklar" -> 4
              [] f = "Satislarin Maliyeti (-)" -> -15
              [] f = "Ticari Borclar" -> 5
              [] f = "Toplam Ozkaynaklar" -> 8
              [] f = "Maddi Duran Varliklar" -> 6
              [] f = "Maddi Olmayan Duran Varliklar" -> 1
              [] f = "Finansman Giderleri" -> 1
              [] f = "Gecmis Yillar Kar/Zararlari" -> 2
              [] f = "SURDURULEN FAALIYETLER VERGI ONCESI KARI (ZARARI)" -> 2)]

\* A firm whose every line item is 0.
ZeroFirm == [f \in Fields |-> Zero]

Bases == {SampleFirm, ZeroFirm}

\* A base firm, or a base firm with one cell replaced.
FirmRows == Bases \cup {[b EXCEPT ![f] = v] : b \in Bases, f \in Fields, v \in Cells}

\* The table of the firms `rows` with the columns `cols`; labels 0..n-1 as
\* reset_index(drop=True) leaves them.
MkTable(rows, cols) ==
    [index |-> [i \in 1..Len(rows) |-> i - 1],
     data  |-> [c \in cols |-> [i \in 1..Len(rows) |-> rows[i][c]]]]

\* Up to MaxRows firms: one row of FirmRows at some position among base firms.
FirmLists ==
    {<<>>} \cup
    {[i \in 1..n |-> IF i = p THEN r ELSE b] :
        n \in 1..MaxRows, p \in 1..MaxRows, r \in FirmRows, b \in Bases}

\* Tables with every column compute_ratios reads.
CompleteTables == {MkTable(rows, Fields) : rows \in FirmLists}

\* Up to MaxRows copies of one base firm.
BaseLists == {[i \in 1..n |-> b] : n \in 0..MaxRows, b \in Bases}

\* Those tables, and tables of base firms with one of the columns absent.
UploadedTables ==
    CompleteTables \cup {MkTable(rows, Fields \ {f}) : rows \in BaseLists, f \in Fields}

Labels == {"Olumlu", "Sartli"}

Idle ==
    /\ num = <<>> /\ denom = <<>> /\ result = <<>>
    /\ calls = 0 /\ first = EmptyDF

Fresh ==
    /\ model_input = EmptyDF /\ out_df = EmptyDF /\ pred_label = <<>>
    /\ msg = "" /\ warned = FALSE /\ load_called = FALSE /\ predicted = FALSE

(***************************************************************************)
(* The script, from the transposed upload to the output table.             *)
(***************************************************************************)
Init ==
    /\ pc = "uploaded"
    /\ model_file \in {"ok", "missing", "corrupt"}
    /\ uploaded \in UploadedTables
    /\ raw_df = uploaded
    /\ Fresh /\ Idle

\* enriched = compute_ratios(raw_df); model_input = enriched[SELECTED_FEATS].copy()
ComputeRatios ==
    /\ pc = "uploaded"
    /\ LET r == compute_ratios(raw_df)
       IN  /\ raw_df' = r.df
           /\ IF r.raised
              THEN /\ pc' = "crashed"
                   /\ msg' = "KeyError"
                   /\ UNCHANGED model_input
              ELSE /\ pc' = "selected"
                   /\ model_input' = select(r.df, SELECTED_FEATS)
                   /\ UNCHANGED msg
    /\ UNCHANGED <<model_file, uploaded, out_df, pred_label, warned, load_called,
                   predicted, num, denom, result, calls, first>>

\* if model_input.isna().any().any(): warning; dropna
DropMissing ==
    /\ pc = "selected"
    /\ pc' = "filtered"
    /\ IF anyna(model_input)
       THEN /\ warned' = TRUE
            /\ model_input' = dropna(model_input)
       ELSE UNCHANGED <<warned, model_input>>
    /\ UNCHANGED <<model_file, uploaded, raw_df, out_df, pred_label, msg, load_called,
                   predicted, num, denom, result, calls, first>>

\* The empty check without the st.stop().
EmptyCheckNoStop ==
    /\ pc = "filtered"
    /\ pc' = "nonempty"
    /\ msg' = IF nrows(model_input) = 0 THEN "no_rows" ELSE msg
    /\ UNCHANGED <<model_file, uploaded, raw_df, model_input, out_df, pred_label, warned,
                   load_called, predicted, num, denom, result, calls, first>>

\* if model_input.empty: st.error; st.stop()
EmptyCheck ==
    /\ pc = "filtered"
    /\ IF nrows(model_input) = 0
       THEN pc' = "stopped" /\ msg' = "no_rows"
       ELSE pc' = "nonempty" /\ UNCHANGED msg
    /\ UNCHANGED <<model_file, uploaded, raw_df, model_input, out_df, pred_label, warned,
                   load_called, predicted, num, denom, result, calls, first>>

\* The load whose except branch reports the error and goes on.
LoadModelNoStop ==
    /\ pc = "nonempty"
    /\ load_called' = TRUE
    /\ CASE model_file = "ok" -> pc' = "loaded" /\ UNCHANGED msg
         [] model_file = "missing" -> pc' = "loaded" /\ msg' = "model_missing"
         [] OTHER -> pc' = "crashed" /\ msg' = "exception"
    /\ UNCHANGED <<model_file, uploaded, raw_df, model_input, out_df, pred_label, warned,
                   predicted, num, denom, result, calls, first>>

\* try: pipe, enc = joblib.load(MODEL_PATH); except FileNotFoundError: st.error; st.stop()
LoadModel ==
    /\ pc = "nonempty"
    /\ load_called' = TRUE
    /\ CASE model_file = "ok" -> pc' = "loaded" /\ UNCHANGED msg
         [] model_file = "missing" -> pc' = "stopped" /\ msg' = "model_missing"
         [] OTHER -> pc' = "crashed" /\ msg' = "exception"
    /\ UNCHANGED <<model_file, uploaded, raw_df, model_input, out_df, pred_label, warned,
                   predicted, num, denom, result, calls, first>>

\* pred_num = pipe.predict(model_input); pred_label = enc.inverse_transform(pred_num)
Predict ==
    /\ pc = "loaded"
    /\ pc' = "predicted"
    /\ predicted' = TRUE
    /\ \E labels \in [1..nrows(model_input) -> Labels] : pred_label' = labels
    /\ UNCHANGED <<model_file, uploaded, raw_df, model_input, out_df, msg, warned,
                   load_called, num, denom, result, calls, first>>

\* out_df = raw_df.loc[model_input.index].copy(); out_df["Tahmin Gorus Tipi"] = pred_label
BuildOutput ==
    /\ pc = "predicted"
    /\ pc' = "done"
    /\ out_df' = setcol(loc(raw_df, model_input.index), "Tahmin Gorus Tipi", pred_label)
    /\ msg' = "success"
    /\ UNCHANGED <<model_file, uploaded, raw_df, model_input, pred_label, warned,
                   load_called, predicted, num, denom, result, calls, first>>

Next ==
    \/ ComputeRatios
    \/ DropMissing
    \/ EmptyCheck
    \/ LoadModel
    \/ Predict
    \/ BuildOutput

Spec == Init /\ [][Next]_vars

(***************************************************************************)
(* safe_div on its own, on series of finite numbers and NaN.               *)
(***************************************************************************)
SeriesOf(n) == [1..n -> Cells]

InitDiv ==
    /\ pc = "safe_div"
    /\ \E n \in 0..MaxLen : num \in SeriesOf(n) /\ denom \in SeriesOf(n)
    /\ result = <<>>
    /\ model_file = "ok" /\ uploaded = EmptyDF /\ raw_df = EmptyDF
    /\ Fresh /\ calls = 0 /\ first = EmptyDF

CallSafeDiv ==
    /\ pc = "safe_div"
    /\ pc' = "safe_div_done"
    /\ result' = safe_div(num, denom)
    /\ UNCHANGED <<model_file, uploaded, raw_df, model_input, out_df, pred_label, msg,
                   warned, load_called, predicted, num, denom, calls, first>>

NextDiv == CallSafeDiv

SpecDiv == InitDiv /\ [][NextDiv]_vars

(***************************************************************************)
(* compute_ratios called again on the table it returned.                   *)
(***************************************************************************)
InitEngine ==
    /\ pc = "engine"
    /\ uploaded \in CompleteTables
    /\ raw_df = uploaded
    /\ model_file = "ok"
    /\ Fresh /\ Idle

CallEngine ==
    /\ pc = "engine"
    /\ calls < MaxCalls
    /\ LET r == compute_ratios(raw_df)
       IN  /\ raw_df' = r.df
           /\ first' = IF calls = 0 THEN r.df ELSE first
    /\ calls' = calls + 1
    /\ UNCHANGED <<pc, model_file, uploaded, model_input, out_df, pred_label, msg, warned,
                   load_called, predicted, num, denom, result>>

NextEngine == CallEngine

SpecEngine == InitEngine /\ [][NextEngine]_vars

(***************************************************************************)
(* The null filter on its own, on feature tables that hold NaN.            *)
(***************************************************************************)
\* Feature row i: i in every feature, NaN in feature f ("" for none).
FeatureRow(i, f) == [c \in SELECTED_FEATS |-> IF c = f THEN NaN ELSE Num(i)]

\* Up to MaxRows rows: at position p a row with any one feature NaN or none,
\* elsewhere rows with the current ratio NaN or none.
FeatureLists ==
    {<<>>} \cup
    UNION {{[i \in 1..n |-> IF i = p THEN FeatureRow(i, f)
                            ELSE FeatureRow(i, IF q[i] THEN "Cari Oran" ELSE "")] :
               p \in 1..n, f \in SELECTED_FEATS \cup {""}, q \in [1..n -> BOOLEAN]} :
           n \in 1..MaxRows}

InitFilter ==
    /\ pc = "selected"
    /\ \E rows \in FeatureLists : raw_df = MkTable(rows, SELECTED_FEATS)
    /\ uploaded = raw_df
    /\ model_input = select(raw_df, SELECTED_FEATS)
    /\ out_df = EmptyDF /\ pred_label = <<>>
    /\ msg = "" /\ warned = FALSE /\ load_called = FALSE /\ predicted = FALSE
    /\ model_file = "ok"
    /\ Idle

NextFilter ==
    \/ DropMissing
    \/ EmptyCheck

SpecFilter == InitFilter /\ [][NextFilter]_vars

(***************************************************************************)
(* Properties.                                                             *)
(***************************************************************************)
\* Every column compute_ratios reads is in the uploaded table.
Complete == Fields \subseteq columns(uploaded)

\* compute_ratios has returned.
Enriched == pc # "uploaded" /\ msg # "KeyError"

\* The script has gone past the empty check.
PastEmptyCheck ==
    \/ pc \in {"nonempty", "loaded", "predicted", "done", "stopped"}
    \/ pc = "crashed" /\ msg = "exception"

\* The run is over.
Ended == pc \in {"stopped", "crashed", "done"}

\* Position in raw_df of the row labelled l.
RowOf(l) == CHOOSE i \in 1..nrows(raw_df) : raw_df.index[i] = l

\* Some cell of the uploaded table is NaN.
SomeNaNCell ==
    \E c \in columns(uploaded) : \E i \in 1..nrows(uploaded) : IsNaN(uploaded.data[c][i])

\* C1: safe_div returns exactly 0 at every position whose denominator is 0
\* or NaN, whatever the numerator there (negative, 0, positive or NaN): not
\* infinity, not NaN; the value has the length of its arguments.
SafeDivZeroDenominator ==
    pc = "safe_div_done" =>
        /\ Len(result) = Len(num)
        /\ \A i \in 1..Len(denom) :
              (denom[i] = Zero \/ IsNaN(denom[i])) => result[i] = Zero

\* A call with a negative numerator over 0 and a positive one over NaN.
SafeDivZeroDenominatorSeen ==
    /\ pc = "safe_div_done"
    /\ \E i, j \in 1..Len(denom) :
          /\ denom[i] = Zero /\ num[i][1] < 0 /\ result[i] = Zero
          /\ IsNaN(denom[j]) /\ num[j][1] > 0 /\ result[j] = Zero

\* C2: once compute_ratios has returned, every ratio column is NaN in every
\* row where the numerator of its division is NaN and the denominator is
\* neither NaN nor 0.
NullNumeratorGivesNull ==
    (Enriched /\ Complete) =>
        \A c \in RatioCols : \A i \in 1..nrows(uploaded) :
            ( /\ IsNaN(Numer(uploaded, c)[i])
              /\ ~IsNaN(Denom(uploaded, c)[i])
              /\ Denom(uploaded, c)[i] # Zero )
            => IsNaN(raw_df.data[c][i])

\* C3: after the null filter a row of the table is absent from model_input
\* if and only if one of its 32 features is NaN; the rows that stay keep
\* their label, their values and their order, so there are never more of
\* them than rows of the table.
FilterDropsExactlyNullRows ==
    (pc \in {"filtered", "nonempty", "stopped"} /\ msg # "KeyError") =>
        /\ \A i \in 1..nrows(raw_df) :
              (~\E k \in 1..nrows(model_input) : model_input.index[k] = raw_df.index[i])
              <=> (\E c \in SELECTED_FEATS : IsNaN(raw_df.data[c][i]))
        /\ \A k \in 1..nrows(model_input) :
              /\ \E i \in 1..nrows(raw_df) : raw_df.index[i] = model_input.index[k]
              /\ \A c \in SELECTED_FEATS :
                    model_input.data[c][k] = raw_df.data[c][RowOf(model_input.index[k])]
        /\ \A k, m \in 1..nrows(model_input) :
              k < m => RowOf(model_input.index[k]) < RowOf(model_input.index[m])
        /\ nrows(model_input) <= nrows(raw_df)

\* The first row was dropped and a later row stays under its own label.
FilterDroppedARow ==
    /\ pc = "filtered"
    /\ warned
    /\ nrows(model_input) >= 1
    /\ model_input.index[1] # raw_df.index[1]

\* C4: in a run where no row is left after the null filter, the script has
\* stopped with the no-rows error, joblib.load was never called and predict
\* was never called.
EmptyHaltsBeforeInference ==
    (PastEmptyCheck /\ nrows(model_input) = 0) =>
        /\ pc = "stopped"
        /\ msg = "no_rows"
        /\ ~load_called
        /\ ~predicted

\* A run stopped by the no-rows error.
EmptyHaltSeen ==
    pc = "stopped" /\ msg = "no_rows" /\ nrows(model_input) = 0 /\ Complete

\* C5: the columns of out_df are the columns of the uploaded table and the
\* prediction column, and no other.
OutputIsRawPlusPrediction ==
    pc = "done" => columns(out_df) = columns(uploaded) \cup {"Tahmin Gorus Tipi"}

\* C6: when a column compute_ratios reads is absent, the run ends with the
\* KeyError, the table is as it was uploaded (no derived column on it), and
\* neither the filter nor the prediction ran.
MissingFieldLeavesTable ==
    (~Complete /\ pc # "uploaded") =>
        /\ pc = "crashed"
        /\ msg = "KeyError"
        /\ raw_df = uploaded
        /\ model_input = EmptyDF
        /\ ~warned /\ ~load_called /\ ~predicted

SecondCallSameValues ==
    /\ calls >= 1 => \A f \in Fields : raw_df.data[f] = uploaded.data[f]
    /\ calls >= 2 =>
          /\ SELECTED_FEATS \subseteq columns(first)
          /\ \A c \in SELECTED_FEATS : raw_df.data[c] = first.data[c]

\* Two calls on a table with a row whose operating profit is not 0.
SecondCallSeen ==
    /\ calls = 2
    /\ \E i \in 1..nrows(uploaded) :
          /\ uploaded.data["FAALIYET KARI (ZARARI)"][i] \notin {Zero, NaN}
          /\ raw_df.data["Faaliyet Kar Marji"][i] # Zero

\* The quotient n / d, and 0 where d is 0 or NaN.
NullSafeQuotient(n, d) == IF d = Zero \/ IsNaN(d) THEN Zero ELSE Div(n, d)

\* -4.3 - 4.5*Z1 + 5.7*Z2 - 0.004*Z3 of the firm in row i of the upload.
ZmijewskiOf(i) ==
    LET ca  == uploaded.data["Donen Varliklar"][i]
        fa  == uploaded.data["Duran Varliklar"][i]
        stl == uploaded.data["Kisa Vadeli Yukumlulukler"][i]
        ltl == uploaded.data["Uzun Vadeli Yukumlulukler"][i]
        ni  == uploaded.data["Donem Net Kar/Zarari"][i]
        z1  == NullSafeQuotient(ni, Add(ca, fa))
        z2  == NullSafeQuotient(Add(stl, ltl), Add(ca, fa))
        z3  == NullSafeQuotient(ca, stl)
    IN  Sub(Add(Sub(Dec(-43, 10), Mul(Dec(45, 10), z1)), Mul(Dec(57, 10), z2)),
            Mul(Dec(4, 1000), z3))

\* C9: in every row the Zmijewski column is -4.3 - 4.5*Z1 + 5.7*Z2 - 0.004*Z3
\* with Z1 = net income / total assets, Z2 = total liabilities / total
\* assets, Z3 = current assets / short-term liabilities, each quotient 0
\* where its denominator is 0 or NaN.
ZmijewskiFormula ==
    (Enriched /\ Complete) =>
        \A i \in 1..nrows(uploaded) : raw_df.data["Zmijewski Skoru"][i] = ZmijewskiOf(i)

====
